---------------------------- MODULE Spec2Model ----------------------------
(***************************************************************************)
(* Model of RPiGPIO_pig.c: the MEX command dispatcher for RaspberryPi GPIO *)
(* control through the pigpio library.                                     *)
(*                                                                         *)
(* The calling (interpreter) thread runs mexFunction.  Every command but   *)
(* the edge wait is straight-line code and is one action.  The edge wait   *)
(* (case 5) shares isrDone with isrCallback, which pigpio runs on its own  *)
(* thread, so it is split at each access of isrDone and at each call of    *)
(* gpioSetISRFunc.                                                         *)
(***************************************************************************)
EXTENDS Integers, Sequences, FiniteSets, TLC

VARIABLES
    firstTime,      \* static bool firstTime
    isrDone,        \* static volatile int isrDone
    pc,             \* position of the calling thread in mexFunction
    nlhs,           \* number of results the caller asked for
    prhs,           \* the input arguments; nrhs is their number
    plhs,           \* the results assigned so far (plhs[0] only)
    errMsg,         \* the mexErrMsgTxt abort of the call, "" if none
    outcome,        \* "none" | "running" | "returned" | "aborted"
    gpioInited,     \* pigpio: library initialised
    exitRegistered, \* host: exitfunc registered with mexAtExit
    isr,            \* pigpio: per GPIO, the registered ISR and its timeout
    level,          \* pigpio: logic level of each GPIO
    pwmRange,       \* pigpio: PWM range of each user GPIO
    pwmDuty,        \* pigpio: PWM dutycycle of each user GPIO
    active,         \* environment: the pin of this call sees edges
    passed,         \* history: the mode or pull constant the call passed to pigpio
    trace,          \* history: backend calls made by the current invocation
    uninitOp,       \* history: a backend operation ran on an uninitialised library
    reInit,         \* history: gpioInitialise ran on an initialised library
    staleAtEntry,   \* history: isrDone as the edge wait found it, before its reset
    writes,         \* history: isrCallback runs since isrDone was last reset
    writesAtReg,    \* history: value of writes when the callback was registered
    sigAtReg,       \* history: isrDone when the callback was registered
    endedBy,        \* history: isrDone as seen by the loop test that ended the wait
    readVal,        \* history: isrDone as read to compute the result
    regFailed       \* history: gpioSetISRFunc(..., isrCallback) reported failure

vars == <<firstTime, isrDone, pc, nlhs, prhs, plhs, errMsg, outcome, gpioInited,
          exitRegistered, isr, level, pwmRange, pwmDuty, active, passed,
          trace, uninitOp, reInit, staleAtEntry, writes, writesAtReg, sigAtReg,
          endedBy, readVal, regFailed>>

pinVars  == <<level, pwmRange, pwmDuty>>
waitVars == <<staleAtEntry, writes, writesAtReg, sigAtReg, endedBy, readVal, regFailed>>

-----------------------------------------------------------------------------
(* Program constants *)

Sentinel == -1000           \* isrDone "not yet signalled"; also the missing-arg marker
PI_TIMEOUT == 2             \* level passed to the ISR when the timeout expires
PWM_RANGE == 1024           \* PWM range the dispatcher enforces
PI_MAX_USER_GPIO == 31      \* the GPIOs the commands are available on: 0-31

(* Bounds of the model *)

MaxWrites == 2              \* isrCallback runs the model follows per edge wait

(* Inputs *)

Pins == {17, 60}            \* 17: a user GPIO; 60: no GPIO of the board
CmdVals == {-1, 0, 1, 2, 3, 4, 5, 99}
ArgVals == {-2, -1, 0, 1, 1024, 1025}

UserPin(p) == p \in 0..PI_MAX_USER_GPIO
UserPins == {p \in Pins : UserPin(p)}

Invocations ==
    [nlhs : {0, 1}, prhs : {<<>>, <<0>>}]
    \cup [nlhs : {1}, prhs : {<<c, p>> : c \in CmdVals, p \in Pins}]
    \cup [nlhs : {1}, prhs : {<<c, p, a>> : c \in CmdVals, p \in Pins, a \in ArgVals}]

-----------------------------------------------------------------------------
(* The locals of mexFunction, as functions of the arguments *)

\* variant of ArgOf: -1 marks the missing argument
ArgOf_OtherMarker(args) == IF Len(args) > 2 THEN args[3] ELSE -1

ArgOf(args) == IF Len(args) > 2 THEN args[3] ELSE Sentinel

nrhs == Len(prhs)
cmd  == prhs[1]
pin  == prhs[2]
arg  == ArgOf(prhs)

-----------------------------------------------------------------------------
(* The pigpio backend, as far as the dispatcher observes it *)

NoISR == [on |-> FALSE, timeout |-> -1]

\* the level of the pin, or pigpio's error code PI_BAD_GPIO
gpioRead(p) == IF UserPin(p) THEN level[p] ELSE -3

\* the PWM range of the pin, or pigpio's error code PI_BAD_USER_GPIO
gpioGetPWMrange(p) == IF UserPin(p) THEN pwmRange[p] ELSE -2

\* gpioPWM succeeds on a user GPIO for a dutycycle within the range
gpioPWMOk(p, duty) == UserPin(p) /\ duty \in 0..PWM_RANGE

\* the level argument gpioWrite accepts
LevelOk(lv) == lv \in {0, 1}

Range(f) == {f[i] : i \in DOMAIN f}

\* the hardware revision is whatever the board reports
Revisions == {0, 41}

\* the pigpio state of a pin's mode and pull resistor is never read back by the
\* dispatcher; the model keeps the constant passed to gpioSetMode and
\* gpioSetPullUpDown by the call in the variable passed

-----------------------------------------------------------------------------
(* Initial state: the statics as initialised, the library not yet set up *)

Init ==
    /\ firstTime = TRUE
    /\ isrDone = Sentinel
    /\ pc = "idle"
    /\ nlhs = 0
    /\ prhs = <<>>
    /\ plhs = <<>>
    /\ errMsg = ""
    /\ outcome = "none"
    /\ gpioInited = FALSE
    /\ exitRegistered = FALSE
    /\ isr = [p \in Pins |-> NoISR]
    /\ level = [p \in UserPins |-> 0]
    /\ pwmRange = [p \in UserPins |-> 255]    \* pigpio's default range
    /\ pwmDuty = [p \in UserPins |-> 0]
    /\ active = FALSE
    /\ passed = "none"
    /\ trace = <<>>
    /\ uninitOp = FALSE
    /\ reInit = FALSE
    /\ staleAtEntry = Sentinel
    /\ writes = 0
    /\ writesAtReg = 0
    /\ sigAtReg = Sentinel
    /\ endedBy = Sentinel
    /\ readVal = Sentinel
    /\ regFailed = FALSE

-----------------------------------------------------------------------------
(* Entry of mexFunction *)

\* the caller is between calls and issues the invocation inv
Enter(inv) ==
    /\ pc = "idle"
    /\ nlhs' = inv.nlhs
    /\ prhs' = inv.prhs

\* the history of the edge wait starts afresh with every invocation
WaitReset ==
    /\ staleAtEntry' = Sentinel
    /\ writes' = 0
    /\ writesAtReg' = 0
    /\ sigAtReg' = Sentinel
    /\ endedBy' = Sentinel
    /\ readVal' = Sentinel
    /\ regFailed' = FALSE

\* if (firstTime) gpioInitialise() ...
InitNeeded == firstTime

InitTrace == IF InitNeeded THEN <<"gpioInitialise">> ELSE <<>>

\* lines 62-72 with gpioInitialise() >= 0
LazyInit ==
    /\ firstTime' = IF InitNeeded THEN FALSE ELSE firstTime
    /\ gpioInited' = IF InitNeeded THEN TRUE ELSE gpioInited
    /\ exitRegistered' = IF InitNeeded THEN TRUE ELSE exitRegistered
    /\ reInit' = (reInit \/ (InitNeeded /\ gpioInited))

\* the call ends: by return when msg is empty, by mexErrMsgTxt(msg) otherwise,
\* having assigned the results res and made the backend calls ops after the
\* lazy initialisation
Ending(res, msg, ops) ==
    /\ pc' = "done"
    /\ outcome' = IF msg = "" THEN "returned" ELSE "aborted"
    /\ errMsg' = msg
    /\ plhs' = res
    /\ trace' = InitTrace \o ops
    /\ uninitOp' = (uninitOp \/ (ops # <<>> /\ ~gpioInited'))
    /\ active' = FALSE
    /\ WaitReset

\* a call that ends without setting a pin mode or a pull resistor
End(res, msg, ops) == Ending(res, msg, ops) /\ passed' = "none"

\* lines 62-64: gpioInitialise() < 0
InitFail(inv) ==
    /\ Enter(inv)
    /\ InitNeeded
    /\ reInit' = (reInit \/ gpioInited)
    /\ End(<<>>, "init", <<>>)
    /\ UNCHANGED <<firstTime, gpioInited, exitRegistered, isrDone, isr, pinVars>>

\* lines 75-80
Revision(inv) ==
    /\ Enter(inv)
    /\ Len(inv.prhs) = 0 /\ inv.nlhs = 1
    /\ LazyInit
    /\ \E version \in Revisions : End(<<version>>, "", <<"gpioHardwareRevision">>)
    /\ UNCHANGED <<isrDone, isr, pinVars>>

\* lines 82-114
Usage(inv) ==
    /\ Enter(inv)
    /\ ~(Len(inv.prhs) = 0 /\ inv.nlhs = 1)
    /\ Len(inv.prhs) < 2
    /\ LazyInit
    /\ End(<<>>, "", <<>>)
    /\ UNCHANGED <<isrDone, isr, pinVars>>

\* what is left of the entry for an invocation that reaches the switch
Dispatch(inv, c) ==
    /\ Enter(inv)
    /\ Len(inv.prhs) >= 2
    /\ inv.prhs[1] = c
    /\ LazyInit

-----------------------------------------------------------------------------
(* The switch: cases 0 to 4 and the default *)

\* the argument checks that open cases 1 to 5: the third argument is taken
\* as missing (lines 135, 142, 159, 166, 173)
ArgMissing(c, a) ==
    \/ c \in {1, 2, 3} /\ a < 0
    \/ c \in {4, 5} /\ a < -1

\* variant of PwmOutOfRange: the bound is off by one
PwmOutOfRange_OffByOne(a) == a > PWM_RANGE + 1

\* line 145
PwmOutOfRange(a) == a > PWM_RANGE

\* lines 128-132
Read(inv) ==
    /\ Dispatch(inv, 0)
    /\ End(<<gpioRead(inv.prhs[2])>>, "", <<"gpioRead">>)
    /\ UNCHANGED <<isrDone, isr, pinVars>>

\* lines 135-136, 142-143, 159-160, 166-167, 173-174
MissingArg(inv) ==
    /\ \E c \in 1..5 : Dispatch(inv, c)
    /\ ArgMissing(inv.prhs[1], ArgOf(inv.prhs))
    /\ End(<<>>, "missing", <<>>)
    /\ UNCHANGED <<isrDone, isr, pinVars>>

\* lines 134-139
Write(inv) ==
    /\ Dispatch(inv, 1)
    /\ ~ArgMissing(1, ArgOf(inv.prhs))
    /\ End(<<>>, "", <<"gpioWrite">>)
    /\ level' = IF UserPin(inv.prhs[2]) /\ LevelOk(ArgOf(inv.prhs))
                THEN [level EXCEPT ![inv.prhs[2]] = ArgOf(inv.prhs)]
                ELSE level
    /\ UNCHANGED <<isrDone, isr, pwmRange, pwmDuty>>

\* lines 145-146
PwmRejected(inv) ==
    /\ Dispatch(inv, 2)
    /\ ~ArgMissing(2, ArgOf(inv.prhs))
    /\ PwmOutOfRange(ArgOf(inv.prhs))
    /\ End(<<>>, "range", <<>>)
    /\ UNCHANGED <<isrDone, isr, pinVars>>

\* variant of PwmCalls: the range is set without being queried
PwmCalls_NoQuery(p) == <<"gpioSetPWMrange", "gpioPWM">>

\* the backend calls of lines 149-153 on pin p
PwmCalls(p) ==
    IF gpioGetPWMrange(p) # PWM_RANGE
    THEN <<"gpioGetPWMrange", "gpioSetPWMrange", "gpioPWM">>
    ELSE <<"gpioGetPWMrange", "gpioPWM">>

\* lines 148-156
Pwm(inv) ==
    /\ Dispatch(inv, 2)
    /\ ~ArgMissing(2, ArgOf(inv.prhs))
    /\ ~PwmOutOfRange(ArgOf(inv.prhs))
    /\ LET p == inv.prhs[2]
           duty == ArgOf(inv.prhs)
       IN /\ End(<<>>, IF gpioPWMOk(p, duty) THEN "" ELSE "pwmfail", PwmCalls(p))
          /\ pwmRange' = IF UserPin(p) /\ "gpioSetPWMrange" \in Range(PwmCalls(p))
                         THEN [pwmRange EXCEPT ![p] = PWM_RANGE]
                         ELSE pwmRange
          /\ pwmDuty' = IF gpioPWMOk(p, duty)
                        THEN [pwmDuty EXCEPT ![p] = duty]
                        ELSE pwmDuty
    /\ UNCHANGED <<isrDone, isr, level>>

\* lines 158-163
SetMode(inv) ==
    /\ Dispatch(inv, 3)
    /\ ~ArgMissing(3, ArgOf(inv.prhs))
    /\ Ending(<<>>, "", <<"gpioSetMode">>)
    /\ passed' = IF ArgOf(inv.prhs) # 0 THEN "PI_OUTPUT" ELSE "PI_INPUT"
    /\ UNCHANGED <<isrDone, isr, pinVars>>

\* lines 165-170
SetPull(inv) ==
    /\ Dispatch(inv, 4)
    /\ ~ArgMissing(4, ArgOf(inv.prhs))
    /\ Ending(<<>>, "", <<"gpioSetPullUpDown">>)
    /\ passed' = IF ArgOf(inv.prhs) = 0 THEN "PI_PUD_OFF"
                 ELSE IF ArgOf(inv.prhs) > 0 THEN "PI_PUD_UP" ELSE "PI_PUD_DOWN"
    /\ UNCHANGED <<isrDone, isr, pinVars>>

\* variant of UnknownCommand: the switch has no default case
UnknownCommand_NoDefault(inv) ==
    /\ \E c \in CmdVals \ (0..5) : Dispatch(inv, c)
    /\ End(<<>>, "", <<>>)
    /\ UNCHANGED <<isrDone, isr, pinVars>>

\* lines 196-197
UnknownCommand(inv) ==
    /\ \E c \in CmdVals \ (0..5) : Dispatch(inv, c)
    /\ End(<<>>, "unknown", <<>>)
    /\ UNCHANGED <<isrDone, isr, pinVars>>

-----------------------------------------------------------------------------
(* The switch: case 5, the edge wait, and the notification handler *)

\* variant of WaitBegin: isrDone is not reset
WaitBegin_NoReset(inv) ==
    /\ Dispatch(inv, 5)
    /\ ~ArgMissing(5, ArgOf(inv.prhs))
    /\ pc' = "register"
    /\ outcome' = "running"
    /\ errMsg' = ""
    /\ plhs' = <<0>>
    /\ isrDone' = isrDone
    /\ trace' = InitTrace
    /\ active' \in BOOLEAN
    /\ passed' = "none"
    /\ staleAtEntry' = isrDone
    /\ writes' = 0
    /\ writesAtReg' = 0
    /\ sigAtReg' = Sentinel
    /\ endedBy' = Sentinel
    /\ readVal' = Sentinel
    /\ regFailed' = FALSE
    /\ UNCHANGED <<isr, pinVars, uninitOp>>

\* lines 173-179: up to and including the reset of isrDone
WaitBegin(inv) ==
    /\ Dispatch(inv, 5)
    /\ ~ArgMissing(5, ArgOf(inv.prhs))
    /\ pc' = "register"
    /\ outcome' = "running"
    /\ errMsg' = ""
    /\ plhs' = <<0>>
    /\ isrDone' = Sentinel
    /\ trace' = InitTrace
    /\ active' \in BOOLEAN
    /\ passed' = "none"
    /\ staleAtEntry' = isrDone
    /\ writes' = 0
    /\ writesAtReg' = 0
    /\ sigAtReg' = Sentinel
    /\ endedBy' = Sentinel
    /\ readVal' = Sentinel
    /\ regFailed' = FALSE
    /\ UNCHANGED <<isr, pinVars, uninitOp>>

\* gpioSetISRFunc(p, EITHER_EDGE, timeout, isrCallback) can succeed
RegisterOk(p) == UserPin(p) /\ gpioInited

\* lines 180-183: ok is the backend's verdict
Register(ok) ==
    /\ pc = "register"
    /\ ok => RegisterOk(pin)
    /\ isr' = IF ok THEN [isr EXCEPT ![pin] = [on |-> TRUE, timeout |-> arg]] ELSE isr
    /\ plhs' = IF ok THEN plhs ELSE <<-1>>
    /\ regFailed' = ~ok
    /\ sigAtReg' = isrDone
    /\ writesAtReg' = writes
    /\ trace' = Append(trace, "gpioSetISRFunc")
    /\ uninitOp' = (uninitOp \/ ~gpioInited)
    /\ pc' = "spin"
    /\ UNCHANGED <<firstTime, isrDone, nlhs, prhs, errMsg, outcome, gpioInited,
                   exitRegistered, pinVars, active, passed, reInit, staleAtEntry, writes,
                   endedBy, readVal>>

\* lines 40-43, run by the backend's thread
isrCallback(gpio, lv) ==
    /\ isrDone' = lv
    /\ writes' = writes + 1

\* an edge on pin p while its ISR is registered: the handler gets the new level
EdgeNotify(p) ==
    /\ isr[p].on
    /\ active
    /\ writes < MaxWrites
    /\ level' = [level EXCEPT ![p] = 1 - level[p]]
    /\ isrCallback(p, level'[p])
    /\ UNCHANGED <<firstTime, pc, nlhs, prhs, plhs, errMsg, outcome, gpioInited,
                   exitRegistered, isr, pwmRange, pwmDuty, active, passed, trace,
                   uninitOp, reInit, staleAtEntry, writesAtReg, sigAtReg, endedBy,
                   readVal, regFailed>>

\* the timeout of the ISR registered on pin p expires: the handler gets PI_TIMEOUT
\* (a timeout of -1 is the infinite wait of the usage text, lines 108-109)
TimeoutNotify(p) ==
    /\ isr[p].on
    /\ isr[p].timeout >= 0
    /\ writes < MaxWrites
    /\ isrCallback(p, PI_TIMEOUT)
    /\ UNCHANGED <<firstTime, pc, nlhs, prhs, plhs, errMsg, outcome, gpioInited,
                   exitRegistered, isr, pinVars, active, passed, trace, uninitOp, reInit,
                   staleAtEntry, writesAtReg, sigAtReg, endedBy, readVal, regFailed>>

\* line 186: the loop test finds isrDone changed
SpinExit ==
    /\ pc = "spin"
    /\ isrDone # Sentinel
    /\ endedBy' = isrDone
    /\ pc' = "unreg"
    /\ UNCHANGED <<firstTime, isrDone, nlhs, prhs, plhs, errMsg, outcome, gpioInited,
                   exitRegistered, isr, pinVars, active, passed, trace, uninitOp, reInit,
                   staleAtEntry, writes, writesAtReg, sigAtReg, readVal, regFailed>>

\* variant of Unregister: the callback stays registered
Unregister_Skipped ==
    /\ pc = "unreg"
    /\ pc' = "read"
    /\ UNCHANGED <<firstTime, isrDone, nlhs, prhs, plhs, errMsg, outcome, gpioInited,
                   exitRegistered, isr, pinVars, active, passed, trace, uninitOp, reInit,
                   waitVars>>

\* line 189: gpioSetISRFunc(pin, EITHER_EDGE, arg, NULL)
Unregister ==
    /\ pc = "unreg"
    /\ isr' = [isr EXCEPT ![pin] = NoISR]
    /\ trace' = Append(trace, "gpioSetISRFunc")
    /\ uninitOp' = (uninitOp \/ ~gpioInited)
    /\ pc' = "read"
    /\ UNCHANGED <<firstTime, isrDone, nlhs, prhs, plhs, errMsg, outcome, gpioInited,
                   exitRegistered, pinVars, active, passed, reInit, waitVars>>

\* line 192
ResultOf(sig) == IF sig = PI_TIMEOUT THEN 0 ELSE 1

\* lines 192-194 and the return
ReadResult ==
    /\ pc = "read"
    /\ readVal' = isrDone
    /\ plhs' = <<ResultOf(isrDone)>>
    /\ outcome' = "returned"
    /\ pc' = "done"
    /\ UNCHANGED <<firstTime, isrDone, nlhs, prhs, errMsg, gpioInited,
                   exitRegistered, isr, pinVars, active, passed, trace, uninitOp, reInit,
                   staleAtEntry, writes, writesAtReg, sigAtReg, endedBy, regFailed>>

\* control is back with the caller, which takes the results or the error
Return ==
    /\ pc = "done"
    /\ pc' = "idle"
    /\ nlhs' = 0
    /\ prhs' = <<>>
    /\ plhs' = <<>>
    /\ errMsg' = ""
    /\ outcome' = "none"
    /\ trace' = <<>>
    /\ active' = FALSE
    /\ passed' = "none"
    /\ WaitReset
    /\ UNCHANGED <<firstTime, isrDone, gpioInited, exitRegistered, isr, pinVars,
                   uninitOp, reInit>>

-----------------------------------------------------------------------------
(* The exit hook *)

\* variant of exitfunc: firstTime is not set again
exitfunc_KeepsFlag ==
    /\ pc = "idle"
    /\ exitRegistered
    /\ gpioInited' = FALSE
    /\ isr' = [p \in Pins |-> NoISR]
    /\ exitRegistered' = FALSE
    /\ UNCHANGED <<firstTime, isrDone, pc, nlhs, prhs, plhs, errMsg, outcome, pinVars,
                   active, passed, trace, uninitOp, reInit, waitVars>>

\* lines 45-49, run by the host when the MEX file is flushed
exitfunc ==
    /\ pc = "idle"
    /\ exitRegistered
    /\ gpioInited' = FALSE
    /\ isr' = [p \in Pins |-> NoISR]
    /\ firstTime' = TRUE
    /\ exitRegistered' = FALSE
    /\ UNCHANGED <<isrDone, pc, nlhs, prhs, plhs, errMsg, outcome, pinVars, active, passed,
                   trace, uninitOp, reInit, waitVars>>

-----------------------------------------------------------------------------
(* The specification *)

Call(inv) ==
    \/ InitFail(inv)
    \/ Revision(inv)
    \/ Usage(inv)
    \/ Read(inv)
    \/ MissingArg(inv)
    \/ Write(inv)
    \/ PwmRejected(inv)
    \/ Pwm(inv)
    \/ SetMode(inv)
    \/ SetPull(inv)
    \/ UnknownCommand(inv)
    \/ WaitBegin(inv)

Notify == \E p \in Pins : EdgeNotify(p) \/ TimeoutNotify(p)

Next ==
    \/ \E inv \in Invocations : Call(inv)
    \/ \E ok \in BOOLEAN : Register(ok)
    \/ Notify
    \/ SpinExit
    \/ Unregister
    \/ ReadResult
    \/ Return
    \/ exitfunc

Spec == Init /\ [][Next]_vars

\* the calling thread keeps running and the backend delivers the timeout
\* notifications it was asked for
FairSpec ==
    /\ Spec
    /\ WF_vars(\E ok \in BOOLEAN : Register(ok))
    /\ WF_vars(SpinExit)
    /\ WF_vars(Unregister)
    /\ WF_vars(ReadResult)
    /\ WF_vars(Return)
    /\ WF_vars(\E p \in Pins : TimeoutNotify(p))

-----------------------------------------------------------------------------
(* Properties *)

\* the invocation whose call has just ended
Ended == pc = "done"
EndedCmd(c) == pc = "done" /\ nrhs >= 2 /\ cmd = c

\* the backend calls of the invocation, lazy initialisation aside
Ops == SelectSeq(trace, LAMBDA f : f # "gpioInitialise")

PwmOps == {"gpioGetPWMrange", "gpioSetPWMrange", "gpioPWM"}

\* C1: an edge wait whose callback registration fails terminates and returns
\* the result -1.
C1_FailedRegistrationReturnsMinusOne ==
    (pc = "spin" /\ regFailed)
        ~> (pc = "done" /\ outcome = "returned" /\ plhs = <<-1>>)

\* C2: an edge wait whose registration succeeded returns 1 if the notification
\* that ended the wait was an edge (level 0 or 1) and 0 if it was the timeout
\* (level 2).
C2_ResultMatchesEndingNotification ==
    (EndedCmd(5) /\ outcome = "returned" /\ ~regFailed)
        => /\ endedBy \in {0, 1} => plhs = <<1>>
           /\ endedBy = PI_TIMEOUT => plhs = <<0>>

\* C3 (as stated): every invocation with a command code 0..5 performs exactly
\* one backend call, lazy initialisation aside, and returns at most one result.
C3_ExactlyOneBackendCall ==
    (Ended /\ nrhs >= 2 /\ cmd \in 0..5)
        => Len(Ops) = 1 /\ Len(plhs) <= 1

\* C3 (amended): every invocation with a command code 0..5 returns at most one
\* result and, lazy initialisation aside, makes these backend calls: none when
\* it aborts on a failed initialisation or on an argument check; one for the
\* commands 0, 1, 3 and 4; for command 2 the PWM range query, the range set
\* only when the range is not 1024, and the duty set; for a completed command
\* 5 the registration and the unregistration of the callback.
C3_BackendCallsPerCommand ==
    (Ended /\ nrhs >= 2 /\ cmd \in 0..5)
        => /\ Len(plhs) <= 1
           /\ IF errMsg \in {"init", "missing", "range"}
              THEN Ops = <<>>
              ELSE CASE cmd = 0 -> Ops = <<"gpioRead">>
                     [] cmd = 1 -> Ops = <<"gpioWrite">>
                     [] cmd = 2 -> /\ Ops \in {<<"gpioGetPWMrange", "gpioPWM">>,
                                               <<"gpioGetPWMrange", "gpioSetPWMrange",
                                                 "gpioPWM">>}
                                   /\ Len(Ops) = 2 => UserPin(pin) /\ pwmRange[pin] = PWM_RANGE
                     [] cmd = 3 -> Ops = <<"gpioSetMode">>
                     [] cmd = 4 -> Ops = <<"gpioSetPullUpDown">>
                     [] cmd = 5 -> Ops = <<"gpioSetISRFunc", "gpioSetISRFunc">>

\* a PWM request that found another range, set it to 1024 and set the duty
C3_Witness ==
    EndedCmd(2) /\ outcome = "returned" /\ Len(Ops) = 3

\* C4 (as stated): an invocation with an unknown command code aborts and makes
\* no backend call at all, the first invocation included.
C4_UnknownCommandNoBackendCall ==
    (Ended /\ nrhs >= 2 /\ cmd \notin 0..5)
        => outcome = "aborted" /\ trace = <<>>

\* C4 (amended): an invocation with an unknown command code aborts with an
\* error and makes no backend call other than the gpioInitialise of the lazy
\* initialisation.
C4_UnknownCommandOnlyLazyInit ==
    (Ended /\ nrhs >= 2 /\ cmd \notin 0..5)
        => /\ outcome = "aborted"
           /\ errMsg \in {"unknown", "init"}
           /\ Ops = <<>>
           /\ Len(trace) <= 1

\* the unknown command 99 as the first invocation: the library was initialised
C4_Witness ==
    /\ EndedCmd(99)
    /\ errMsg = "unknown"
    /\ trace = <<"gpioInitialise">>

InDomain(c, a) ==
    \/ c \in {1, 3} /\ a \in {0, 1}
    \/ c = 4 /\ a \in {-1, 0, 1}

C7_InitialisedOnce ==
    /\ ~reInit
    /\ ~uninitOp
    /\ firstTime <=> ~gpioInited
    /\ exitRegistered <=> gpioInited
    /\ (Ended /\ errMsg = "init") =>
           outcome = "aborted" /\ firstTime /\ trace = <<"gpioInitialise">>
    /\ (Ended /\ errMsg # "init") => ~firstTime
    /\ (Ended /\ Ops # <<>>) => gpioInited

\* a failed initialisation after a teardown: the level written before the
\* teardown shows the library had been initialised once
C7_Witness ==
    Ended /\ errMsg = "init" /\ firstTime /\ level[17] = 1

\* C8: an edge wait with a timeout >= 0 on a pin without activity eventually
\* returns, and returns 0.
C8_QuietWaitReturnsZero ==
    (pc = "register" /\ arg >= 0 /\ ~active)
        ~> (pc = "done" /\ outcome = "returned" /\ plhs = <<0>>)

\* C9 (as stated): the handler writes isrDone exactly once between the reset
\* and the read that computes the result.
C9_SignalWrittenExactlyOnce ==
    (EndedCmd(5) /\ outcome = "returned") => writes = 1

\* C9 (amended): the handler writes isrDone at least once between the reset
\* and the read that computes the result.
C9_SignalWrittenAtLeastOnce ==
    (EndedCmd(5) /\ outcome = "returned") => writes >= 1

\* a wait during which the handler ran twice
C9_Witness ==
    EndedCmd(5) /\ outcome = "returned" /\ writes = 2

\* C10: isrDone is the sentinel when a wait registers its callback, no callback
\* is registered before the registration or after the unregistration of a
\* wait, and the result of a wait is computed from a value other than the
\* sentinel that the handler wrote after the registration of that wait.
C10_NoStaleNotification ==
    /\ pc \in {"spin", "unreg", "read"} => sigAtReg = Sentinel /\ writesAtReg = 0
    /\ pc \in {"idle", "register", "read", "done"} => \A p \in Pins : ~isr[p].on
    /\ (EndedCmd(5) /\ outcome = "returned") =>
           /\ sigAtReg = Sentinel
           /\ readVal # Sentinel
           /\ writes > writesAtReg
           /\ plhs = <<ResultOf(readVal)>>

\* a wait that timed out although an earlier wait had left an edge in isrDone
C10_Witness ==
    /\ EndedCmd(5) /\ outcome = "returned"
    /\ staleAtEntry = 1
    /\ plhs = <<0>>

=============================================================================
